---- MODULE Spec2Model ----
\* BEiT vision transformer (flowvision/models/beit.py): the relative position
\* index generator, the Attention / RelativePositionBias modules that own an
\* index, and the Beit container's construction, initialisation and
\* reconfiguration.
EXTENDS Integers, Naturals, Sequences, FiniteSets, TLC

VARIABLES
  attn, rpb, bias,          \* standalone Attention / RelativePositionBias, last gathered bias
  pc, log, call,            \* position in the constructor or factory, phases run, the
                            \* call: its arguments and the fetch / load steps it began
  num_classes, global_pool, embed_dim,
  patch_embed, cls_token, pos_embed, rel_pos_bias,
  blocks, norm, fc_norm, head,
  params,                   \* named parameter -> owner module, shape, value
  ret                       \* the most recent call: its arguments, result or exception

indexvars == <<attn, rpb, bias>>
beitvars  == <<pc, log, call, num_classes, global_pool, embed_dim, patch_embed,
               cls_token, pos_embed, rel_pos_bias, blocks, norm, fc_norm, head,
               params, ret>>
vars == <<indexvars, beitvars>>

\* ---------------------------------------------------------------- bounds
MaxH == 3
MaxW == 3
MaxDepth == 3
MaxRate == 1

\* argument values the standalone modules are constructed with
Dims == {4}
Heads == {1, 2}

\* window_size arguments: pairs of positive integers (window_size[0] is ws[1])
Windows == (1..MaxH) \X (1..MaxW)

\* Python's None for an optional tuple / tensor: the empty tuple, which is
\* falsy like None in `if window_size:`
None == << >>

\* ------------------------------------------ gen_relative_position_index
\* flow.arange(n): the vector 0, 1, ..., n-1 (0-indexed)
arange(n) == [k \in 0..(n - 1) |-> k]

\* flow.stack(flow.meshgrid([a, b])): tensor of shape (2, |a|, |b|), "ij"
\* indexing: plane 0 repeats a along rows, plane 1 repeats b along columns
meshgrid(a, b) ==
  [c \in 0..1 |->
     [ij \in (DOMAIN a) \X (DOMAIN b) |-> IF c = 0 THEN a[ij[1]] ELSE b[ij[2]]]]

\* flow.flatten(coords, 1): (2, Wh, Ww) -> (2, Wh*Ww), row-major
flatten(coords, Wh, Ww) ==
  [c \in DOMAIN coords |->
     [k \in 0..(Wh * Ww - 1) |-> coords[c][<<k \div Ww, k % Ww>>]]]

\* coords_flatten[:, :, None] - coords_flatten[:, None, :]: (2, L, L)
pairwise_difference(cf) ==
  [c \in DOMAIN cf |->
     [pq \in (DOMAIN cf[c]) \X (DOMAIN cf[c]) |-> cf[c][pq[1]] - cf[c][pq[2]]]]

\* a plausible slip: view/reshape (2, L, L) as (L, L, 2) instead of permuting
\* the axes; element (p, q, c) is then the one at flat offset p*2L + q*2 + c
permute_as_reshape(t, L) ==
  [pq \in (0..(L - 1)) \X (0..(L - 1)) |->
     [c \in 0..1 |->
        LET n == pq[1] * (2 * L) + pq[2] * 2 + c
        IN  t[n \div (L * L)][<<(n % (L * L)) \div L, n % L>>]]]

\* relative_coords.permute(1, 2, 0).contiguous(): (2, L, L) -> (L, L, 2)
permute(t, L) ==
  [pq \in (0..(L - 1)) \X (0..(L - 1)) |-> [c \in 0..1 |-> t[c][pq]]]

\* a plausible slip: the row offset is left unshifted (line 38 missing)
shift_without_rows(rc, ws) ==
  [pq \in DOMAIN rc |-> [rc[pq] EXCEPT ![1] = @ + (ws[2] - 1)]]

\* relative_coords[:, :, 0] += window_size[0] - 1
\* relative_coords[:, :, 1] += window_size[1] - 1
shift(rc, ws) ==
  [pq \in DOMAIN rc |->
     [rc[pq] EXCEPT ![0] = @ + (ws[1] - 1), ![1] = @ + (ws[2] - 1)]]

\* a plausible slip: the row offset is scaled by the row span 2*Wh-1
scale_by_rows(rc, ws) ==
  [pq \in DOMAIN rc |-> [rc[pq] EXCEPT ![0] = @ * (2 * ws[1] - 1)]]

\* relative_coords[:, :, 0] *= 2 * window_size[1] - 1
scale(rc, ws) ==
  [pq \in DOMAIN rc |-> [rc[pq] EXCEPT ![0] = @ * (2 * ws[2] - 1)]]

\* relative_position_index[1:, 1:] = relative_coords.sum(-1) on a zero
\* matrix of shape (window_area + 1, window_area + 1)
assign_patches(rc, window_area) ==
  [ij \in (0..window_area) \X (0..window_area) |->
     IF ij[1] >= 1 /\ ij[2] >= 1
     THEN rc[<<ij[1] - 1, ij[2] - 1>>][0] + rc[<<ij[1] - 1, ij[2] - 1>>][1]
     ELSE 0]

\* a plausible slip: the corner is written first, so the column assignment
\* that follows overwrites it
assign_cls_corner_first(idx, nrd) ==
  LET corner == [idx EXCEPT ![<<0, 0>>] = nrd - 1]
      row    == [ij \in DOMAIN idx |-> IF ij[1] = 0 THEN nrd - 3 ELSE corner[ij]]
  IN  [ij \in DOMAIN idx |-> IF ij[2] = 0 THEN nrd - 2 ELSE row[ij]]

\* relative_position_index[0, 0:] = num_relative_distance - 3
\* relative_position_index[0:, 0] = num_relative_distance - 2
\* relative_position_index[0, 0]  = num_relative_distance - 1
assign_cls(idx, nrd) ==
  LET row  == [ij \in DOMAIN idx |-> IF ij[1] = 0 THEN nrd - 3 ELSE idx[ij]]
      col  == [ij \in DOMAIN idx |-> IF ij[2] = 0 THEN nrd - 2 ELSE row[ij]]
  IN  [col EXCEPT ![<<0, 0>>] = nrd - 1]

\* (2 * window_size[0] - 1) * (2 * window_size[1] - 1) + 3
num_relative_distance(ws) == (2 * ws[1] - 1) * (2 * ws[2] - 1) + 3

gen_relative_position_index(ws) ==
  LET window_area     == ws[1] * ws[2]
      coords          == meshgrid(arange(ws[1]), arange(ws[2]))
      coords_flatten  == flatten(coords, ws[1], ws[2])
      relative_coords ==
        scale(shift(permute(pairwise_difference(coords_flatten), window_area), ws), ws)
  IN  assign_cls(assign_patches(relative_coords, window_area),
                 num_relative_distance(ws))

\* ------------------------------------------------------------ Attention
\* a module or tensor that is absent (Python None) or not yet constructed
Absent == [kind |-> "None"]

\* Attention.__init__ without its buffer: the fields and parameter shapes
Attention(dim, num_heads, qkv_bias, window_size) ==
  LET head_dim     == dim \div num_heads
      all_head_dim == head_dim * num_heads
  IN  [kind         |-> "Attention",
       num_heads    |-> num_heads,
       head_dim     |-> head_dim,
       qkv          |-> <<all_head_dim * 3, dim>>,
       q_bias       |-> IF qkv_bias THEN <<all_head_dim>> ELSE None,
       k_bias       |-> IF qkv_bias THEN <<all_head_dim>> ELSE None,
       v_bias       |-> IF qkv_bias THEN <<all_head_dim>> ELSE None,
       window_size  |-> IF window_size # None THEN window_size ELSE None,
       relative_position_bias_table |->
         IF window_size # None
         THEN <<num_relative_distance(window_size), num_heads>> ELSE None,
       proj         |-> <<dim, all_head_dim>>]

\* RelativePositionBias.__init__ without its buffer
RelativePositionBias(window_size, num_heads) ==
  [kind        |-> "RelativePositionBias",
   window_size |-> window_size,
   window_area |-> window_size[1] * window_size[2],
   num_heads   |-> num_heads,
   relative_position_bias_table |->
     <<num_relative_distance(window_size), num_heads>>]

\* the buffer registered by Attention.__init__ / RelativePositionBias.__init__
relative_position_index(window_size) ==
  IF window_size # None THEN gen_relative_position_index(window_size) ELSE None

\* table[index.view(-1)]: every index must address a row of the table
\* (Python accepts -rows <= i < rows); the result is viewed as (L+1, L+1, -1)
gather(table, index, heads_first) ==
  IF \A ij \in DOMAIN index : -table[1] <= index[ij] /\ index[ij] < table[1]
  THEN [status |-> "ok",
        rows   |-> {index[ij] : ij \in DOMAIN index},
        shape  |-> heads_first]
  ELSE [status |-> "IndexError", rows |-> {}, shape |-> << >>]

\* attn = Attention(dim, num_heads, qkv_bias, window_size=...)
Attention_init ==
  /\ attn = Absent
  /\ \E dim \in Dims, num_heads \in Heads, qkv_bias \in BOOLEAN,
        window_size \in Windows \cup {None} :
       attn' = [module |-> Attention(dim, num_heads, qkv_bias, window_size),
                relative_position_index |-> relative_position_index(window_size)]
  /\ UNCHANGED <<rpb, bias, beitvars>>

\* Attention._get_rel_pos_bias, reached from forward when the module owns a
\* table (line 128)
Attention_get_rel_pos_bias ==
  /\ attn # Absent
  /\ attn.module.relative_position_bias_table # None
  /\ LET m == attn.module
          n == m.window_size[1] * m.window_size[2] + 1
      IN  bias' = [of |-> "attn"] @@
                  gather(m.relative_position_bias_table,
                         attn.relative_position_index,
                         <<1, m.num_heads, n, n>>)
  /\ UNCHANGED <<attn, rpb, beitvars>>

\* rpb = RelativePositionBias(window_size, num_heads)
RelativePositionBias_init ==
  /\ rpb = Absent
  /\ \E window_size \in Windows, num_heads \in Heads :
       rpb' = [module |-> RelativePositionBias(window_size, num_heads),
               relative_position_index |-> relative_position_index(window_size)]
  /\ UNCHANGED <<attn, bias, beitvars>>

\* RelativePositionBias.forward
RelativePositionBias_forward ==
  /\ rpb # Absent
  /\ bias' = [of |-> "rpb"] @@
              gather(rpb.module.relative_position_bias_table,
                     rpb.relative_position_index,
                     <<rpb.module.num_heads, rpb.module.window_area + 1,
                       rpb.module.window_area + 1>>)
  /\ UNCHANGED <<attn, rpb, beitvars>>

\* ----------------------------------------------------------- layers
Identity == [kind |-> "Identity"]

\* norm_layer(dim), norm_layer = partial(nn.LayerNorm, eps=1e-6)
LayerNorm(dim) == [kind |-> "LayerNorm", normalized_shape |-> <<dim>>]

\* nn.Linear(in_features, out_features)
Linear(in_features, out_features) ==
  [kind |-> "Linear", in_features |-> in_features, out_features |-> out_features]

\* DropPath(drop_prob)
DropPath(drop_prob) == [kind |-> "DropPath", drop_prob |-> drop_prob]

\* flowvision.layers.PatchEmbed: grid_size and num_patches from img_size and
\* patch_size, one convolution "proj"
PatchEmbed(img_size, patch_size, in_chans, dim) ==
  [kind        |-> "PatchEmbed",
   grid_size   |-> <<img_size \div patch_size, img_size \div patch_size>>,
   num_patches |-> (img_size \div patch_size) * (img_size \div patch_size),
   proj        |-> <<dim, in_chans, patch_size, patch_size>>]

\* flowvision.layers.Mlp: expand to hidden_features, activate, project back
Mlp(in_features, hidden_features) ==
  [kind |-> "Mlp",
   fc1  |-> Linear(in_features, hidden_features),
   fc2  |-> Linear(hidden_features, in_features)]

\* rates are fractions <<numerator, denominator>> with a positive denominator
Positive(frac) == frac[1] > 0

\* a plausible slip: `if init_values is not None`
is_not_none(init_values) == init_values # None

\* `if init_values:` on None or a number <<numerator, denominator>>
truthy(init_values) == init_values # None /\ init_values[1] # 0

\* Block.__init__
Block(dim, num_heads, mlp_ratio, qkv_bias, drop_path, init_values, window_size) ==
  [norm1     |-> LayerNorm(dim),
   attn      |-> Attention(dim, num_heads, qkv_bias, window_size),
   drop_path |-> IF Positive(drop_path) THEN DropPath(drop_path) ELSE Identity,
   norm2     |-> LayerNorm(dim),
   mlp       |-> Mlp(dim, dim * mlp_ratio),
   gamma_1   |-> IF truthy(init_values) THEN <<dim>> ELSE None,
   gamma_2   |-> IF truthy(init_values) THEN <<dim>> ELSE None]

\* Block.forward: which gate scales each residual branch
Block_forward(block) ==
  IF block.gamma_1 = None
  THEN [attn_branch |-> "unscaled", mlp_branch |-> "unscaled"]
  ELSE [attn_branch |-> "gamma_1",
        mlp_branch  |-> IF block.gamma_2 # None THEN "gamma_2" ELSE "TypeError"]

\* a plausible slip: a schedule that stops one step short of the end point
linspace_open(start, end, steps) ==
  [i \in 0..(steps - 1) |-> <<start * steps + i * (end - start), steps>>]

\* flow.linspace(start, end, steps) as exact fractions: a single step yields
\* start, otherwise start + i * (end - start) / (steps - 1)
linspace(start, end, steps) ==
  [i \in 0..(steps - 1) |->
     IF steps = 1 THEN <<start, 1>>
     ELSE <<start * (steps - 1) + i * (end - start), steps - 1>>]

\* ------------------------------------------------------- parameters
\* a tensor's value: how it was last initialised, the constant it was filled
\* with, the numbers 2*layer_id whose square roots it was divided by since,
\* and how many times it was multiplied by head_init_scale since
Value(base, c) == [base |-> base, c |-> c, div |-> << >>, mul |-> 0]

\* one named parameter: its owner module kind, shape and value
Param(name, module, shape, value) ==
  [name |-> name, module |-> module, shape |-> shape, value |-> value]

\* nn.Linear's parameters, default initialised
linear_params(prefix, lin, with_bias) ==
  {Param(prefix \o <<"weight">>, "Linear",
         <<lin.out_features, lin.in_features>>, Value("default", None))}
  \cup
  (IF with_bias
   THEN {Param(prefix \o <<"bias">>, "Linear", <<lin.out_features>>,
               Value("default", None))}
   ELSE {})

\* nn.LayerNorm's parameters (none for Identity or an absent module)
norm_params(prefix, layer) ==
  IF layer.kind = "LayerNorm"
  THEN {Param(prefix \o <<"weight">>, "LayerNorm", layer.normalized_shape,
              Value("ones", None)),
        Param(prefix \o <<"bias">>, "LayerNorm", layer.normalized_shape,
              Value("zeros", None))}
  ELSE {}

\* Attention's parameters: qkv has no bias, k_bias is a buffer
attention_params(prefix, a) ==
  linear_params(prefix \o <<"qkv">>, Linear(a.qkv[2], a.qkv[1]), FALSE)
  \cup
  (IF a.q_bias # None
   THEN {Param(prefix \o <<"q_bias">>, "Attention", a.q_bias, Value("zeros", None)),
         Param(prefix \o <<"v_bias">>, "Attention", a.v_bias, Value("zeros", None))}
   ELSE {})
  \cup
  (IF a.relative_position_bias_table # None
   THEN {Param(prefix \o <<"relative_position_bias_table">>, "Attention",
               a.relative_position_bias_table, Value("zeros", None))}
   ELSE {})
  \cup linear_params(prefix \o <<"proj">>, Linear(a.proj[2], a.proj[1]), TRUE)

\* Block's parameters
block_params(prefix, b, init_values) ==
  norm_params(prefix \o <<"norm1">>, b.norm1)
  \cup attention_params(prefix \o <<"attn">>, b.attn)
  \cup norm_params(prefix \o <<"norm2">>, b.norm2)
  \cup linear_params(prefix \o <<"mlp", "fc1">>, b.mlp.fc1, TRUE)
  \cup linear_params(prefix \o <<"mlp", "fc2">>, b.mlp.fc2, TRUE)
  \cup (IF b.gamma_1 # None
        THEN {Param(prefix \o <<"gamma_1">>, "Block", b.gamma_1,
                    Value("init_values", init_values))}
        ELSE {})
  \cup (IF b.gamma_2 # None
        THEN {Param(prefix \o <<"gamma_2">>, "Block", b.gamma_2,
                    Value("init_values", init_values))}
        ELSE {})

\* nn.Linear(embed_dim, num_classes) if num_classes > 0 else nn.Identity()
make_head(dim, n) == IF n > 0 THEN Linear(dim, n) ELSE Identity

head_params(h) ==
  IF h.kind = "Linear" THEN linear_params(<<"head">>, h, TRUE) ELSE {}

\* a set of named parameters as a mapping from name
by_name(ps) ==
  [n \in {p.name : p \in ps} |->
     LET p == CHOOSE q \in ps : q.name = n
     IN  [module |-> p.module, shape |-> p.shape, value |-> p.value]]

\* the name of block i's prefix, "blocks.<i>" (0-indexed)
block_name(layer_id) == <<"blocks", ToString(layer_id)>>

\* ------------------------------------------------------ Beit.__init__
\* the defaults of Beit.__init__'s signature; drop_path_rate is a whole number
\* of rate units, init_values None or a fraction
Defaults ==
  [img_size |-> 224, patch_size |-> 16, in_chans |-> 3, num_classes |-> 1000,
   global_pool |-> "avg", embed_dim |-> 768, depth |-> 12, num_heads |-> 12,
   mlp_ratio |-> 4, qkv_bias |-> TRUE, drop_path_rate |-> 0,
   init_values |-> None, use_abs_pos_emb |-> TRUE, use_rel_pos_bias |-> FALSE,
   use_shared_rel_pos_bias |-> FALSE]

\* num_classes arguments: no classifier, a few classes
ClassCounts == {0, 3}

\* init_values arguments: None, 0.0 and 0.1
InitValues == {None, <<0, 10>>, <<1, 10>>}

\* the arguments Beit is constructed with directly
BeitArgs ==
  [img_size : {32}, patch_size : {16}, in_chans : {3},
   num_classes : ClassCounts, global_pool : {"avg", "token"},
   embed_dim : Dims, depth : 1..MaxDepth, num_heads : {2}, mlp_ratio : {4},
   qkv_bias : {TRUE}, drop_path_rate : 0..MaxRate, init_values : InitValues,
   use_abs_pos_emb : BOOLEAN, use_rel_pos_bias : BOOLEAN,
   use_shared_rel_pos_bias : BOOLEAN]

\* the attributes Beit.__init__ assigns (lines 254-313)
Beit_modules(cfg) ==
  LET pe  == PatchEmbed(cfg.img_size, cfg.patch_size, cfg.in_chans, cfg.embed_dim)
      dpr == linspace(0, cfg.drop_path_rate, cfg.depth)
      use_fc_norm == cfg.global_pool = "avg"
  IN  [num_classes  |-> cfg.num_classes,
       global_pool  |-> cfg.global_pool,
       embed_dim    |-> cfg.embed_dim,
       patch_embed  |-> pe,
       cls_token    |-> <<1, 1, cfg.embed_dim>>,
       pos_embed    |-> IF cfg.use_abs_pos_emb
                        THEN <<1, pe.num_patches + 1, cfg.embed_dim>> ELSE None,
       rel_pos_bias |-> IF cfg.use_shared_rel_pos_bias
                        THEN RelativePositionBias(pe.grid_size, cfg.num_heads)
                        ELSE Absent,
       blocks       |-> [i \in 1..cfg.depth |->
                           Block(cfg.embed_dim, cfg.num_heads, cfg.mlp_ratio,
                                 cfg.qkv_bias, dpr[i - 1], cfg.init_values,
                                 IF cfg.use_rel_pos_bias THEN pe.grid_size ELSE None)],
       norm         |-> IF use_fc_norm THEN Identity ELSE LayerNorm(cfg.embed_dim),
       fc_norm      |-> IF use_fc_norm THEN LayerNorm(cfg.embed_dim) ELSE Absent,
       head         |-> make_head(cfg.embed_dim, cfg.num_classes)]

\* the parameters of a freshly assembled Beit, before any init pass
Beit_params(m, init_values) ==
  by_name(
    {Param(<<"cls_token">>, "Beit", m.cls_token, Value("zeros", None))}
    \cup (IF m.pos_embed # None
          THEN {Param(<<"pos_embed">>, "Beit", m.pos_embed, Value("zeros", None))}
          ELSE {})
    \cup {Param(<<"patch_embed", "proj", "weight">>, "Conv2d", m.patch_embed.proj,
                Value("default", None)),
          Param(<<"patch_embed", "proj", "bias">>, "Conv2d",
                <<m.patch_embed.proj[1]>>, Value("default", None))}
    \cup (IF m.rel_pos_bias # Absent
          THEN {Param(<<"rel_pos_bias", "relative_position_bias_table">>,
                      "RelativePositionBias",
                      m.rel_pos_bias.relative_position_bias_table,
                      Value("zeros", None))}
          ELSE {})
    \cup UNION {block_params(block_name(i - 1), m.blocks[i], init_values) :
                  i \in DOMAIN m.blocks}
    \cup norm_params(<<"norm">>, m.norm)
    \cup norm_params(<<"fc_norm">>, m.fc_norm)
    \cup head_params(m.head))

\* the module tree is assembled; the init passes follow
Beit_assemble(cfg, fn, pretrained) ==
  LET m == Beit_modules(cfg)
  IN  /\ num_classes' = m.num_classes
      /\ global_pool' = m.global_pool
      /\ embed_dim' = m.embed_dim
      /\ patch_embed' = m.patch_embed
      /\ cls_token' = m.cls_token
      /\ pos_embed' = m.pos_embed
      /\ rel_pos_bias' = m.rel_pos_bias
      /\ blocks' = m.blocks
      /\ norm' = m.norm
      /\ fc_norm' = m.fc_norm
      /\ head' = m.head
      /\ params' = Beit_params(m, cfg.init_values)
      /\ call' = [fn |-> fn, pretrained |-> pretrained,
                  drop_path_rate |-> cfg.drop_path_rate,
                  init_values |-> cfg.init_values,
                  use_abs_pos_emb |-> cfg.use_abs_pos_emb,
                  io |-> << >>]
      /\ pc' = "apply"
      /\ log' = << >>
      /\ UNCHANGED ret

modulevars == <<num_classes, global_pool, embed_dim, patch_embed, cls_token,
                pos_embed, rel_pos_bias, blocks, norm, fc_norm, head>>

\* model = Beit(**cfg)
Beit_init ==
  /\ pc = "idle"
  /\ \E cfg \in BeitArgs : Beit_assemble(cfg, "Beit", FALSE)
  /\ UNCHANGED indexvars

\* trunc_normal_(tensor, std=0.02): overwrites the tensor
trunc_normal(p) == [p EXCEPT !.value = Value("trunc_normal", None)]

\* nn.init.constant_(tensor, 0) / (tensor, 1.0)
constant(p, base) == [p EXCEPT !.value = Value(base, None)]

\* Beit._init_weights on the module owning parameter p, for its attribute
Beit_init_weights(p, attribute) ==
  IF p.module = "Linear"
  THEN IF attribute = "weight" THEN trunc_normal(p) ELSE constant(p, "zeros")
  ELSE IF p.module = "LayerNorm"
  THEN IF attribute = "bias" THEN constant(p, "zeros") ELSE constant(p, "ones")
  ELSE p

\* self.apply(self._init_weights)
Beit_apply_init_weights ==
  /\ pc = "apply"
  /\ params' = [n \in DOMAIN params |-> Beit_init_weights(params[n], n[Len(n)])]
  /\ pc' = "embed"
  /\ log' = Append(log, "_init_weights")
  /\ UNCHANGED <<indexvars, modulevars, call, ret>>

\* trunc_normal_(self.pos_embed) when present, trunc_normal_(self.cls_token)
Beit_init_tokens ==
  /\ pc = "embed"
  /\ params' = [n \in DOMAIN params |->
                  IF (n = <<"pos_embed">> /\ pos_embed # None) \/ n = <<"cls_token">>
                  THEN trunc_normal(params[n]) ELSE params[n]]
  /\ pc' = "fix"
  /\ log' = Append(log, "trunc_normal_tokens")
  /\ UNCHANGED <<indexvars, modulevars, call, ret>>

\* rescale(param, layer_id): param.div_(math.sqrt(2.0 * layer_id))
rescale(p, layer_id) == [p EXCEPT !.value.div = Append(@, 2 * layer_id)]

\* a plausible slip: enumerate's 0-based layer_id passed on unshifted
fix_init_weight_zero_based(ps, depth) ==
  [n \in DOMAIN ps |->
     IF \E layer_id \in 0..(depth - 1) :
          n \in {block_name(layer_id) \o <<"attn", "proj", "weight">>,
                 block_name(layer_id) \o <<"mlp", "fc2", "weight">>}
     THEN rescale(ps[n],
                  CHOOSE layer_id \in 0..(depth - 1) : n[2] = ToString(layer_id))
     ELSE ps[n]]

\* Beit.fix_init_weight: for layer_id, layer in enumerate(self.blocks), rescale
\* attn.proj.weight and mlp.fc2.weight by layer_id + 1
fix_init_weight(ps, depth) ==
  [n \in DOMAIN ps |->
     IF \E layer_id \in 0..(depth - 1) :
          n \in {block_name(layer_id) \o <<"attn", "proj", "weight">>,
                 block_name(layer_id) \o <<"mlp", "fc2", "weight">>}
     THEN rescale(ps[n],
                  (CHOOSE layer_id \in 0..(depth - 1) : n[2] = ToString(layer_id)) + 1)
     ELSE ps[n]]

\* self.fix_init_weight()
Beit_fix_init_weight ==
  /\ pc = "fix"
  /\ params' = fix_init_weight(params, Len(blocks))
  /\ pc' = "head"
  /\ log' = Append(log, "fix_init_weight")
  /\ UNCHANGED <<indexvars, modulevars, call, ret>>

\* tensor.data.mul_(head_init_scale)
mul_head_init_scale(p) == [p EXCEPT !.value.mul = @ + 1]

\* if isinstance(self.head, nn.Linear): re-init the weight, scale weight and bias
Beit_init_head ==
  /\ pc = "head"
  /\ params' = [n \in DOMAIN params |->
                  IF head.kind = "Linear" /\ n = <<"head", "weight">>
                  THEN mul_head_init_scale(trunc_normal(params[n]))
                  ELSE IF head.kind = "Linear" /\ n = <<"head", "bias">>
                  THEN mul_head_init_scale(params[n])
                  ELSE params[n]]
  /\ pc' = "constructed"
  /\ log' = Append(log, "head_init")
  /\ UNCHANGED <<indexvars, modulevars, call, ret>>

\* ------------------------------------------------ beit_base_patch16_224
\* the keyword arguments the factory fixes (lines 400-410)
FactoryFixed ==
  [patch_size |-> 16, embed_dim |-> 768, depth |-> 12, num_heads |-> 12,
   mlp_ratio |-> 4, use_abs_pos_emb |-> FALSE, use_rel_pos_bias |-> TRUE,
   init_values |-> <<1, 10>>]

\* **kwargs a caller passes to the factory
FactoryKwargs ==
  {[img_size |-> 32], [num_classes |-> 0], [global_pool |-> "token"],
   [img_size |-> 224, use_shared_rel_pos_bias |-> TRUE],
   [img_size |-> 32, drop_path_rate |-> 1], [depth |-> 2]}

\* the keyword arguments the other named factories fix
Fixed_base_patch16_384 ==
  [img_size |-> 384, patch_size |-> 16, embed_dim |-> 768, depth |-> 12,
   num_heads |-> 12, mlp_ratio |-> 4, use_abs_pos_emb |-> FALSE,
   use_rel_pos_bias |-> TRUE, init_values |-> <<1, 10>>]

Fixed_base_patch16_224_in22k ==
  [num_classes |-> 21841, patch_size |-> 16, embed_dim |-> 768, depth |-> 12,
   num_heads |-> 12, mlp_ratio |-> 4, use_abs_pos_emb |-> FALSE,
   use_rel_pos_bias |-> TRUE, init_values |-> <<1, 10>>]

Fixed_large_patch16_224 ==
  [patch_size |-> 16, embed_dim |-> 1024, depth |-> 24, num_heads |-> 16,
   mlp_ratio |-> 4, qkv_bias |-> TRUE, use_abs_pos_emb |-> FALSE,
   use_rel_pos_bias |-> TRUE, init_values |-> <<1, 100000>>]

Fixed_large_patch16_384 ==
  [img_size |-> 384, patch_size |-> 16, embed_dim |-> 1024, depth |-> 24,
   num_heads |-> 16, mlp_ratio |-> 4, qkv_bias |-> TRUE,
   use_abs_pos_emb |-> FALSE, use_rel_pos_bias |-> TRUE,
   init_values |-> <<1, 100000>>]

Fixed_large_patch16_512 ==
  [img_size |-> 512, patch_size |-> 16, embed_dim |-> 1024, depth |-> 24,
   num_heads |-> 16, mlp_ratio |-> 4, qkv_bias |-> TRUE,
   use_abs_pos_emb |-> FALSE, use_rel_pos_bias |-> TRUE,
   init_values |-> <<1, 100000>>]

Fixed_large_patch16_224_in22k ==
  [num_classes |-> 21841, patch_size |-> 16, embed_dim |-> 1024, depth |-> 24,
   num_heads |-> 16, mlp_ratio |-> 4, qkv_bias |-> TRUE,
   use_abs_pos_emb |-> FALSE, use_rel_pos_bias |-> TRUE,
   init_values |-> <<1, 100000>>]

\* the registered factories, each with the keyword arguments it fixes; every
\* factory fetches model_urls[<its own name>]
FixedKwargs ==
  [beit_base_patch16_224          |-> FactoryFixed,
   beit_base_patch16_384          |-> Fixed_base_patch16_384,
   beit_base_patch16_224_in22k    |-> Fixed_base_patch16_224_in22k,
   beit_large_patch16_224         |-> Fixed_large_patch16_224,
   beit_large_patch16_384         |-> Fixed_large_patch16_384,
   beit_large_patch16_512         |-> Fixed_large_patch16_512,
   beit_large_patch16_224_in22k   |-> Fixed_large_patch16_224_in22k]

Factories == DOMAIN FixedKwargs

\* model_kwargs = dict(<fixed>, **kwargs), completed by the defaults of
\* Beit.__init__
model_kwargs(fixed, kwargs) ==
  [k \in DOMAIN Defaults |->
     IF k \in DOMAIN fixed THEN fixed[k]
     ELSE IF k \in DOMAIN kwargs THEN kwargs[k]
     ELSE Defaults[k]]

\* a named factory called with (pretrained, progress, **kwargs), up to the
\* assembly of the module tree: dict(name=..., **kwargs) raises TypeError on a
\* keyword given twice, before Beit is constructed
factory_call(fn) ==
  /\ \E pretrained \in BOOLEAN, kwargs \in FactoryKwargs :
       IF DOMAIN kwargs \cap DOMAIN FixedKwargs[fn] # {}
       THEN /\ pc' = "raised"
            /\ ret' = [op |-> "raise", exc |-> "TypeError", fn |-> fn,
                       kwargs |-> kwargs]
            /\ UNCHANGED <<modulevars, params, call, log>>
       ELSE Beit_assemble(model_kwargs(FixedKwargs[fn], kwargs), fn, pretrained)
  /\ UNCHANGED indexvars

\* model = beit_base_patch16_224(pretrained, progress, **kwargs)
beit_base_patch16_224 ==
  /\ pc = "idle"
  /\ factory_call("beit_base_patch16_224")

\* model = beit_base_patch16_384(pretrained, progress, **kwargs)
beit_base_patch16_384 ==
  /\ pc = "idle"
  /\ factory_call("beit_base_patch16_384")

\* model = beit_base_patch16_224_in22k(pretrained, progress, **kwargs)
beit_base_patch16_224_in22k ==
  /\ pc = "idle"
  /\ factory_call("beit_base_patch16_224_in22k")

\* model = beit_large_patch16_224(pretrained, progress, **kwargs)
beit_large_patch16_224 ==
  /\ pc = "idle"
  /\ factory_call("beit_large_patch16_224")

\* model = beit_large_patch16_384(pretrained, progress, **kwargs)
beit_large_patch16_384 ==
  /\ pc = "idle"
  /\ factory_call("beit_large_patch16_384")

\* model = beit_large_patch16_512(pretrained, progress, **kwargs)
beit_large_patch16_512 ==
  /\ pc = "idle"
  /\ factory_call("beit_large_patch16_512")

\* model = beit_large_patch16_224_in22k(pretrained, progress, **kwargs)
beit_large_patch16_224_in22k ==
  /\ pc = "idle"
  /\ factory_call("beit_large_patch16_224_in22k")

\* a plausible slip: the fetch is not guarded by `if pretrained:`
always_load(c) == TRUE

\* `if pretrained:` in a factory
should_load(c) == c.pretrained

\* state_dict = load_state_dict_from_url(model_urls[...], ...): the fetch
\* succeeds or raises
load_state_dict_from_url ==
  /\ pc = "constructed"
  /\ call.fn \in Factories
  /\ should_load(call)
  /\ call' = [call EXCEPT !.io = Append(@, "load_state_dict_from_url")]
  /\ \/ /\ pc' = "fetched"
        /\ UNCHANGED ret
     \/ /\ pc' = "raised"
        /\ ret' = [op |-> "raise", exc |-> "fetch"]
  /\ UNCHANGED <<indexvars, modulevars, params, log>>

\* model.load_state_dict(state_dict), strict: every parameter takes the
\* checkpoint's value; on a name or shape mismatch the entries that do match
\* (here: all but the head's, or none) are copied before the error is raised
load_state_dict ==
  /\ pc = "fetched"
  /\ call' = [call EXCEPT !.io = Append(@, "load_state_dict")]
  /\ \/ /\ params' = [n \in DOMAIN params |->
                        [params[n] EXCEPT !.value = Value("loaded", None)]]
        /\ pc' = "loaded"
        /\ log' = Append(log, "load_state_dict")
        /\ UNCHANGED ret
     \/ /\ pc' = "raised"
        /\ ret' = [op |-> "raise", exc |-> "mismatch"]
        /\ \/ params' = [n \in DOMAIN params |->
                           IF n[1] # "head"
                           THEN [params[n] EXCEPT !.value = Value("loaded", None)]
                           ELSE params[n]]
           \/ UNCHANGED params
        /\ UNCHANGED log
  /\ UNCHANGED <<indexvars, modulevars>>

\* the constructor returns self / the factory returns model
Beit_return ==
  /\ \/ pc = "constructed" /\ ~call.pretrained
     \/ pc = "loaded"
  /\ pc' = "returned"
  /\ ret' = [op |-> call.fn]
  /\ UNCHANGED <<indexvars, modulevars, params, call, log>>

\* ------------------------------------------------------- Beit methods
\* a plausible slip: the head is rebuilt from the stale self.num_classes
reset_head_stale(dim, n, old) == make_head(dim, old)

\* the head reset_classifier builds for its num_classes argument
reset_head(dim, n, old) == make_head(dim, n)

\* Beit.reset_classifier(num_classes, global_pool=None)
Beit_reset_classifier ==
  /\ pc = "returned"
  /\ \E n \in ClassCounts, pool \in {None, <<"avg">>, <<"token">>} :
       LET new_head == reset_head(embed_dim, n, num_classes)
           fresh    == by_name(head_params(new_head))
           kept     == {k \in DOMAIN params : k[1] # "head"}
       IN  /\ num_classes' = n
           /\ global_pool' = IF pool # None THEN pool[1] ELSE global_pool
           /\ head' = new_head
           /\ params' = [k \in kept \cup DOMAIN fresh |->
                           IF k \in kept THEN params[k] ELSE fresh[k]]
           /\ ret' = [op |-> "reset_classifier", num_classes |-> n,
                      global_pool |-> pool]
  /\ UNCHANGED <<indexvars, pc, log, call, embed_dim, patch_embed, cls_token,
                 pos_embed, rel_pos_bias, blocks, norm, fc_norm>>

\* Beit.forward_features on a batch of B images: the token sequence, the
\* gates each block applied and the trailing normalisation
forward_features(B) ==
  [shape     |-> <<B, patch_embed.num_patches + 1, embed_dim>>,
   pos_added |-> pos_embed # None,
   gates     |-> [i \in DOMAIN blocks |-> Block_forward(blocks[i])],
   norm      |-> norm.kind]

\* Beit.forward_head: pool by fc_norm's presence, then the head
forward_head(x) ==
  LET pooled == IF fc_norm # Absent
                THEN [pool |-> "mean_patch_tokens", fc_norm |-> TRUE]
                ELSE [pool |-> "cls_token", fc_norm |-> FALSE]
  IN  [pool    |-> pooled.pool,
       fc_norm |-> pooled.fc_norm,
       norm    |-> x.norm,
       gates   |-> x.gates,
       head    |-> head.kind,
       shape   |-> <<x.shape[1],
                     IF head.kind = "Linear" THEN head.out_features ELSE x.shape[3]>>]

\* Beit.forward(x)
Beit_forward ==
  /\ pc = "returned"
  /\ \E B \in {2} : ret' = [op |-> "forward"] @@ forward_head(forward_features(B))
  /\ UNCHANGED <<indexvars, modulevars, params, pc, log, call>>

\* `"relative_position_bias_table" in n` on a dotted parameter name
name_contains(n, part) == \E k \in DOMAIN n : n[k] = part

\* a plausible slip: "pos_embed" is added only when the parameter exists
no_weight_decay_conditional(ps, pos) ==
  (IF pos # None THEN {<<"pos_embed">>} ELSE {})
  \cup {<<"cls_token">>}
  \cup {n \in DOMAIN ps : name_contains(n, "relative_position_bias_table")}

\* Beit.no_weight_decay
no_weight_decay(ps, pos) ==
  {<<"pos_embed">>, <<"cls_token">>}
  \cup {n \in DOMAIN ps : name_contains(n, "relative_position_bias_table")}

Beit_no_weight_decay ==
  /\ pc = "returned"
  /\ ret' = [op |-> "no_weight_decay", value |-> no_weight_decay(params, pos_embed)]
  /\ UNCHANGED <<indexvars, modulevars, params, pc, log, call>>

\* -------------------------------------------------------- specifications
Init ==
  /\ attn = Absent /\ rpb = Absent /\ bias = Absent
  /\ pc = "idle" /\ log = << >> /\ call = Absent
  /\ num_classes = 0 /\ global_pool = "" /\ embed_dim = 0
  /\ patch_embed = Absent /\ cls_token = None /\ pos_embed = None
  /\ rel_pos_bias = Absent /\ blocks = << >>
  /\ norm = Absent /\ fc_norm = Absent /\ head = Absent
  /\ params = << >>
  /\ ret = Absent

NextIndex ==
  \/ Attention_init
  \/ Attention_get_rel_pos_bias
  \/ RelativePositionBias_init
  \/ RelativePositionBias_forward

\* the standalone position-bias modules
SpecIndex == Init /\ [][NextIndex]_vars

Next ==
  \/ Beit_init
  \/ beit_base_patch16_224
  \/ beit_base_patch16_384
  \/ beit_base_patch16_224_in22k
  \/ beit_large_patch16_224
  \/ beit_large_patch16_384
  \/ beit_large_patch16_512
  \/ beit_large_patch16_224_in22k
  \/ Beit_apply_init_weights
  \/ Beit_init_tokens
  \/ Beit_fix_init_weight
  \/ Beit_init_head
  \/ load_state_dict_from_url
  \/ load_state_dict
  \/ Beit_return
  \/ Beit_reset_classifier
  \/ Beit_forward
  \/ Beit_no_weight_decay

\* one Beit: construction or factory call, then its methods
Spec == Init /\ [][Next]_vars

\* ------------------------------------------------- claims on the index
\* every index matrix a constructed module owns, with its window and the
\* number of rows of the table it indexes
OwnedIndexes ==
  (IF attn # Absent /\ attn.module.window_size # None
   THEN {[ws   |-> attn.module.window_size,
          idx  |-> attn.relative_position_index,
          rows |-> attn.module.relative_position_bias_table[1]]}
   ELSE {})
  \cup
  (IF rpb # Absent
   THEN {[ws   |-> rpb.module.window_size,
          idx  |-> rpb.relative_position_index,
          rows |-> rpb.module.relative_position_bias_table[1]]}
   ELSE {})

\* grid cells of an H x W window, and their row-major flattened position
Cells(ws) == (0..(ws[1] - 1)) \X (0..(ws[2] - 1))
Flat(cell, ws) == cell[1] * ws[2] + cell[2]
Mirror(cell, ws) == <<ws[1] - 1 - cell[1], ws[2] - 1 - cell[2]>>

\* C1: for every window (H, W) the index has shape (H*W+1) x (H*W+1), every
\* entry lies in [0, (2H-1)(2W-1)+2] and so addresses a row of the bias
\* table, and the gather through it succeeds
C1_IndexInRange ==
  /\ \A o \in OwnedIndexes :
       LET H == o.ws[1]
           W == o.ws[2]
       IN  /\ DOMAIN o.idx = (0..(H * W)) \X (0..(H * W))
           /\ o.rows = (2 * H - 1) * (2 * W - 1) + 3
           /\ \A ij \in DOMAIN o.idx :
                /\ 0 <= o.idx[ij]
                /\ o.idx[ij] <= (2 * H - 1) * (2 * W - 1) + 2
                /\ o.idx[ij] < o.rows
  /\ bias # Absent =>
       /\ bias.status = "ok"
       /\ \A r \in bias.rows : 0 <= r

C1_Witness ==
  /\ attn # Absent /\ attn.module.window_size = <<2, 3>>
  /\ bias # Absent /\ bias.of = "attn" /\ bias.status = "ok"
  /\ attn.relative_position_index[<<1, 6>>] = 0

\* C2: entry (1+a, 1+b) is (ra-rb+H-1)*(2W-1) + (ca-cb+W-1); two
\* patch-to-patch entries are equal exactly when their offsets are equal; and
\* every patch-to-patch entry is below num_relative_distance - 3
C2_PatchBuckets ==
  \A o \in OwnedIndexes :
    LET H == o.ws[1]
        W == o.ws[2]
        entry(a, b) == o.idx[<<1 + Flat(a, o.ws), 1 + Flat(b, o.ws)>>]
        offset(a, b) == <<a[1] - b[1], a[2] - b[2]>>
        pairs == {<<offset(ab[1], ab[2]), entry(ab[1], ab[2])>> :
                    ab \in Cells(o.ws) \X Cells(o.ws)}
    IN  /\ \A a \in Cells(o.ws), b \in Cells(o.ws) :
             /\ entry(a, b) =
                  (a[1] - b[1] + H - 1) * (2 * W - 1) + (a[2] - b[2] + W - 1)
             /\ entry(a, b) < ((2 * H - 1) * (2 * W - 1) + 3) - 3
        /\ \A x \in pairs, y \in pairs : (x[2] = y[2]) <=> (x[1] = y[1])

C2_Witness ==
  \E o \in OwnedIndexes :
    /\ o.ws = <<3, 2>>
    /\ o.idx[<<1 + 5, 1 + 0>>] = 14
    /\ o.idx[<<1 + 0, 1 + 5>>] = 0

\* C3: with nrd = (2H-1)(2W-1)+3, row 0 holds nrd-3 from column 1 on,
\* column 0 holds nrd-2 from row 1 on, and the corner holds nrd-1
C3_ClassTokenBuckets ==
  \A o \in OwnedIndexes :
    LET nrd == (2 * o.ws[1] - 1) * (2 * o.ws[2] - 1) + 3
        L   == o.ws[1] * o.ws[2]
    IN  /\ \A j \in 1..L : o.idx[<<0, j>>] = nrd - 3
        /\ \A i \in 1..L : o.idx[<<i, 0>>] = nrd - 2
        /\ o.idx[<<0, 0>>] = nrd - 1

C3_Witness ==
  /\ rpb # Absent /\ rpb.module.window_size = <<2, 2>>
  /\ rpb.relative_position_index[<<0, 0>>] = 11
  /\ rpb.relative_position_index[<<0, 4>>] = 9
  /\ rpb.relative_position_index[<<4, 0>>] = 10

\* C4: the entry of the mirrored pair (a', b') equals the entry of the
\* swapped pair (b, a); and two modules constructed from the same window
\* hold equal index matrices
C4_ReflectionSymmetry ==
  /\ \A o \in OwnedIndexes :
       \A a \in Cells(o.ws), b \in Cells(o.ws) :
         o.idx[<<1 + Flat(Mirror(a, o.ws), o.ws), 1 + Flat(Mirror(b, o.ws), o.ws)>>]
           = o.idx[<<1 + Flat(b, o.ws), 1 + Flat(a, o.ws)>>]
  /\ \A o1 \in OwnedIndexes, o2 \in OwnedIndexes :
       o1.ws = o2.ws => o1.idx = o2.idx

C4_Witness ==
  /\ attn # Absent /\ rpb # Absent
  /\ attn.module.window_size = <<2, 3>>
  /\ rpb.module.window_size = <<2, 3>>
  /\ attn.relative_position_index[<<1 + 5, 1 + 1>>]
       = attn.relative_position_index[<<1 + 4, 1 + 0>>]

\* ------------------------------------------------- claims on the Beit
\* the model's module tree has been assembled
Assembled == call # Absent

\* a load of pretrained weights has begun: it replaces initialised values
Loaded ==
  call # Absent /\ \E k \in DOMAIN call.io : call.io[k] = "load_state_dict"

\* the names of the current parameters holding a relative position bias table
TableNames ==
  {n \in DOMAIN params : n[Len(n)] = "relative_position_bias_table"}

\* C5 as stated: without absolute position embedding the returned set holds
\* every relative_position_bias_table parameter name and not "pos_embed"
C5_Original ==
  (ret # Absent /\ ret.op = "no_weight_decay" /\ ~call.use_abs_pos_emb) =>
    /\ TableNames \subseteq ret.value
    /\ <<"pos_embed">> \notin ret.value

\* C5 amended: no_weight_decay() always includes "pos_embed" and "cls_token",
\* whether or not absolute position embedding is enabled, next to every
\* current parameter name containing "relative_position_bias_table"; without
\* absolute position embedding "pos_embed" names no parameter of the model
C5_NoWeightDecay ==
  (ret # Absent /\ ret.op = "no_weight_decay") =>
    /\ ret.value = {<<"pos_embed">>, <<"cls_token">>} \cup TableNames
    /\ <<"cls_token">> \in DOMAIN params
    /\ (<<"pos_embed">> \in DOMAIN params) <=> call.use_abs_pos_emb

C5_Witness ==
  /\ ret # Absent /\ ret.op = "no_weight_decay"
  /\ call.fn = "beit_base_patch16_224" /\ ~call.use_abs_pos_emb
  /\ <<"blocks", "11", "attn", "relative_position_bias_table">> \in ret.value
  /\ <<"pos_embed">> \in ret.value
  /\ <<"pos_embed">> \notin DOMAIN params

\* C6: fc_norm is present, norm is Identity and forward_head averages the
\* patch tokens exactly when the current global_pool is "avg"; otherwise
\* fc_norm is absent, norm is a normalisation layer and the class token is taken
C6_PoolingFollowsGlobalPool ==
  pc = "returned" =>
    /\ (fc_norm # Absent) <=> (global_pool = "avg")
    /\ fc_norm # Absent => norm = Identity
    /\ fc_norm = Absent => norm.kind = "LayerNorm"
    /\ ret.op = "forward" =>
         ((ret.pool = "mean_patch_tokens") <=> (global_pool = "avg"))

\* C7: the head matches the current num_classes (Identity for 0, a linear map
\* embed_dim -> K for K > 0, so the output's last dimension is K), num_classes
\* is the value of the latest reset_classifier call, and reset_classifier
\* changes only num_classes, global_pool and the head
C7_HeadInv ==
  Assembled =>
    /\ num_classes = 0 => head = Identity
    /\ num_classes > 0 =>
         /\ head = Linear(embed_dim, num_classes)
         /\ params[<<"head", "weight">>].shape = <<num_classes, embed_dim>>
         /\ params[<<"head", "bias">>].shape = <<num_classes>>
    /\ (<<"head", "weight">> \in DOMAIN params) <=> (num_classes > 0)
    /\ (ret # Absent /\ ret.op = "reset_classifier") =>
         num_classes = ret.num_classes
    /\ (ret # Absent /\ ret.op = "forward") =>
         /\ num_classes > 0 => ret.head = "Linear" /\ ret.shape[2] = num_classes
         /\ num_classes = 0 => ret.head = "Identity" /\ ret.shape[2] = embed_dim

C7_ResetKeepsBackbone ==
  (pc = "returned" /\ pc' = "returned") =>
    /\ UNCHANGED <<embed_dim, patch_embed, cls_token, pos_embed, rel_pos_bias,
                   blocks, norm, fc_norm>>
    /\ \A n \in DOMAIN params : n[1] # "head" =>
         n \in DOMAIN params' /\ params'[n] = params[n]
    /\ \A n \in DOMAIN params' : n[1] # "head" => n \in DOMAIN params

\* C7: the head invariant holds in every state and every step of a returned
\* model (reset_classifier included) keeps the backbone
C7_HeadMatchesNumClasses == [] C7_HeadInv /\ [][C7_ResetKeepsBackbone]_vars

C7_Witness ==
  /\ pc = "returned" /\ ret.op = "forward"
  /\ call.fn = "beit_base_patch16_224"
  /\ num_classes = 3 /\ ret.shape = <<2, 3>>
  /\ params[<<"head", "weight">>].value.base = "default"
  /\ params[<<"head", "weight">>].shape = <<3, 768>>

\* the stochastic-depth rate block i was constructed with
Rate(i) ==
  IF blocks[i].drop_path.kind = "DropPath"
  THEN blocks[i].drop_path.drop_prob ELSE <<0, 1>>

\* fractions with positive denominators
FracEq(a, b) == a[1] * b[2] = b[1] * a[2]
FracLe(a, b) == a[1] * b[2] <= b[1] * a[2]

\* C8 as stated: block i (0-indexed) gets r * i / (depth - 1), the first
\* block 0 and the last block exactly r, for every depth >= 1
C8_Original ==
  Assembled =>
    LET depth == Len(blocks)
        r     == <<call.drop_path_rate, 1>>
    IN  /\ FracEq(Rate(1), <<0, 1>>)
        /\ FracEq(Rate(depth), r)
        /\ \A i \in 0..(depth - 1) :
             Rate(i + 1)[1] * (depth - 1) = r[1] * i * Rate(i + 1)[2]

\* C8 amended: for every depth >= 2 block i gets r * i / (depth - 1) - first
\* block 0, last block exactly r, evenly spaced and non-decreasing; for
\* depth = 1 the single block gets rate 0, whatever r is
C8_DropPathSchedule ==
  Assembled =>
    LET depth == Len(blocks)
        r     == <<call.drop_path_rate, 1>>
    IN  /\ FracEq(Rate(1), <<0, 1>>)
        /\ depth >= 2 =>
             /\ FracEq(Rate(depth), r)
             /\ \A i \in 0..(depth - 1) :
                  FracEq(Rate(i + 1), <<r[1] * i, depth - 1>>)
             /\ \A i \in 1..(depth - 1) : FracLe(Rate(i), Rate(i + 1))
             /\ \A i \in 1..(depth - 2) :
                  Rate(i + 1)[1] * Rate(i)[2] * Rate(i + 2)[2] * 2
                    = (Rate(i)[1] * Rate(i + 2)[2] + Rate(i + 2)[1] * Rate(i)[2])
                      * Rate(i + 1)[2]
        /\ \A i \in 1..depth :
             (blocks[i].drop_path = Identity) <=> FracEq(Rate(i), <<0, 1>>)

C8_Witness ==
  /\ Assembled /\ Len(blocks) = 3 /\ call.drop_path_rate = 1
  /\ blocks[1].drop_path = Identity
  /\ blocks[2].drop_path = DropPath(<<1, 2>>)
  /\ blocks[3].drop_path = DropPath(<<2, 2>>)

\* C9: the init phases run in the order generic pass, token re-init,
\* fix_init_weight, head init; fix_init_weight runs exactly once, dividing
\* block i's attn.proj.weight and mlp.fc2.weight by sqrt(2 i) once and no
\* other parameter; a pretrained load runs after them and rescales nothing
C9_InitOrderAndRescale ==
  LET phases == <<"_init_weights", "trunc_normal_tokens", "fix_init_weight",
                  "head_init", "load_state_dict">>
      rescaled(n) ==
        /\ Len(n) = 5 /\ n[1] = "blocks"
        /\ <<n[3], n[4], n[5]>> \in {<<"attn", "proj", "weight">>,
                                    <<"mlp", "fc2", "weight">>}
      fixed == \E k \in DOMAIN log : log[k] = "fix_init_weight"
  IN  /\ Len(log) <= Len(phases)
      /\ \A k \in DOMAIN log : log[k] = phases[k]
      /\ pc \in {"constructed", "fetched", "loaded", "returned"} => Len(log) >= 4
      /\ Loaded => call.fn \in Factories /\ call.pretrained
      /\ \A n \in DOMAIN params :
           IF fixed /\ rescaled(n) /\ params[n].value.base # "loaded"
           THEN /\ params[n].value.base = "trunc_normal"
                /\ \E i \in 1..Len(blocks) :
                     /\ n[2] = ToString(i - 1)
                     /\ params[n].value.div = <<2 * i>>
           ELSE params[n].value.div = << >>
      /\ (fixed /\ ~Loaded) =>
           \A i \in 1..Len(blocks) :
             /\ params[block_name(i - 1) \o <<"attn", "proj", "weight">>].value.div
                  = <<2 * i>>
             /\ params[block_name(i - 1) \o <<"mlp", "fc2", "weight">>].value.div
                  = <<2 * i>>
      /\ (pc \in {"constructed", "fetched"} /\ head.kind = "Linear") =>
           /\ params[<<"head", "weight">>].value
                = [base |-> "trunc_normal", c |-> None, div |-> << >>, mul |-> 1]
           /\ params[<<"head", "bias">>].value
                = [base |-> "zeros", c |-> None, div |-> << >>, mul |-> 1]
      /\ (pc \in {"fix", "head", "constructed", "fetched"}) =>
           params[<<"cls_token">>].value.base = "trunc_normal"

C9_Witness ==
  /\ pc = "fetched" /\ call.pretrained
  /\ log = <<"_init_weights", "trunc_normal_tokens", "fix_init_weight", "head_init">>
  /\ params[<<"blocks", "0", "attn", "proj", "weight">>].value.div = <<2>>
  /\ params[<<"blocks", "11", "mlp", "fc2", "weight">>].value.div = <<24>>

\* what each claim requires of every block when the gates are present / absent
GatesPresent ==
  \A i \in DOMAIN blocks :
    /\ blocks[i].gamma_1 = <<embed_dim>> /\ blocks[i].gamma_2 = <<embed_dim>>
    /\ Block_forward(blocks[i]) = [attn_branch |-> "gamma_1", mlp_branch |-> "gamma_2"]
    /\ \A g \in {"gamma_1", "gamma_2"} :
         /\ block_name(i - 1) \o <<g>> \in DOMAIN params
         /\ params[block_name(i - 1) \o <<g>>].shape = <<embed_dim>>
         /\ ~Loaded => params[block_name(i - 1) \o <<g>>].value
                         = Value("init_values", call.init_values)

GatesAbsent ==
  \A i \in DOMAIN blocks :
    /\ blocks[i].gamma_1 = None /\ blocks[i].gamma_2 = None
    /\ Block_forward(blocks[i]) = [attn_branch |-> "unscaled", mlp_branch |-> "unscaled"]
    /\ \A g \in {"gamma_1", "gamma_2"} :
         block_name(i - 1) \o <<g>> \notin DOMAIN params

\* C10 as stated: any init_values other than None gives both gates; None
\* gives neither
C10_Original ==
  Assembled =>
    /\ call.init_values # None => GatesPresent
    /\ call.init_values = None => GatesAbsent

\* C10 amended: whenever init_values is provided and nonzero, gamma_1 and
\* gamma_2 both exist as vectors of length dim initialised to it and scale
\* both branches; when init_values is None or zero both are absent and the
\* branches are added unscaled; they are always both present or both absent
C10_Gates ==
  Assembled =>
    /\ (call.init_values # None /\ call.init_values[1] # 0) => GatesPresent
    /\ (call.init_values = None \/ call.init_values[1] = 0) => GatesAbsent
    /\ \A i \in DOMAIN blocks :
         (blocks[i].gamma_1 = None) <=> (blocks[i].gamma_2 = None)
    /\ (ret # Absent /\ ret.op = "forward") =>
         \A i \in DOMAIN blocks : ret.gates[i] = Block_forward(blocks[i])

C10_Witness ==
  /\ Assembled /\ call.fn = "Beit" /\ call.init_values = <<1, 10>>
  /\ ret # Absent /\ ret.op = "forward"
  /\ Len(blocks) = 2
  /\ ret.gates[2] = [attn_branch |-> "gamma_1", mlp_branch |-> "gamma_2"]
  /\ params[<<"blocks", "1", "gamma_2">>].value.c = <<1, 10>>

\* ------------------------------------------------------------- C11
\* Beit.__init__ ran to its end: the head's initialisation is its last phase
ConstructorCompleted == \E k \in DOMAIN log : log[k] = "head_init"

\* every parameter of the model holds a checkpoint value
FullyLoaded == \A n \in DOMAIN params : params[n].value.base = "loaded"

\* the call of a named factory that is in progress or has ended, in each state
FactoryCallState ==
  /\ (Assembled /\ call.fn \in Factories) =>
       LET fixed == FixedKwargs[call.fn] IN
       \* the model was built from the values the factory fixes
       /\ embed_dim = fixed.embed_dim
       /\ Len(blocks) = fixed.depth
       /\ call.init_values = fixed.init_values
       /\ call.use_abs_pos_emb = fixed.use_abs_pos_emb
       \* fetch, then load: each at most once, in this order
       /\ call.io \in {<< >>, <<"load_state_dict_from_url">>,
                       <<"load_state_dict_from_url", "load_state_dict">>}
       \* only when pretrained, only after the constructor
       /\ call.io # << >> => call.pretrained /\ ConstructorCompleted
       \* a model is returned only after every attempted step succeeded
       /\ pc = "returned" =>
            /\ ConstructorCompleted
            /\ IF call.pretrained
               THEN /\ call.io = <<"load_state_dict_from_url", "load_state_dict">>
                    /\ \A n \in DOMAIN params :
                         n[1] # "head" => params[n].value.base = "loaded"
                    /\ ret.op = call.fn => FullyLoaded
               ELSE /\ call.io = << >>
                    /\ \A n \in DOMAIN params : params[n].value.base # "loaded"
       \* a failing step is the last one the call began
       /\ pc = "raised" =>
            /\ ret.op = "raise"
            /\ \/ ret.exc = "fetch" /\ call.io = <<"load_state_dict_from_url">>
               \/ /\ ret.exc = "mismatch"
                  /\ call.io = <<"load_state_dict_from_url", "load_state_dict">>
  \* the constructor called directly never fetches or loads
  /\ (Assembled /\ call.fn = "Beit") => call.io = << >> /\ pc # "raised"
  \* a keyword the factory fixes fails the call before anything is built
  /\ (~Assembled /\ pc = "raised") =>
       /\ ret.op = "raise" /\ ret.exc = "TypeError"
       /\ ret.fn \in Factories
       /\ DOMAIN ret.kwargs \cap DOMAIN FixedKwargs[ret.fn] # {}
       /\ blocks = << >> /\ head = Absent /\ DOMAIN params = {}

\* C11: for every named factory call, the fetch and the load happen at most
\* once, only when pretrained is true and only after Beit's constructor has
\* completed; a model is returned only after every attempted step succeeded;
\* on a keyword the factory fixes itself, a fetch failure or a load mismatch
\* the call fails and no model, partially built or partially loaded, is ever
\* returned
C11_FactoryContract ==
  /\ []FactoryCallState
  /\ [][/\ pc = "raised" => pc' = "raised"
        /\ pc' = "returned" => (call'.io = call.io /\ ConstructorCompleted)
        /\ (pc' = "returned" /\ call.pretrained /\ pc # "returned") => FullyLoaded
       ]_vars

\* beit_large_patch16_512(pretrained=True) whose load fails on the head after
\* the rest of the checkpoint was copied: the call has raised
C11_Witness ==
  /\ pc = "raised" /\ Assembled
  /\ call.fn = "beit_large_patch16_512" /\ call.pretrained
  /\ ret.op = "raise" /\ ret.exc = "mismatch"
  /\ call.io = <<"load_state_dict_from_url", "load_state_dict">>
  /\ num_classes = 1000 /\ <<"head", "weight">> \in DOMAIN params
  /\ params[<<"blocks", "23", "gamma_1">>].value.base = "loaded"
  /\ params[<<"head", "weight">>].value.base # "loaded"

====
